---- MODULE Spec2Model ----
(***************************************************************************)
(* NewsHub feed aggregation and state cache.                               *)
(*                                                                         *)
(* The repository holds two programs over the same design:                 *)
(*   app0.py  the FastAPI service (module state app_state, handlers)       *)
(*   t1.py    the stand-alone class NewsFetcher                            *)
(* A behaviour of this module is a run of one of them; impl says which.    *)
(* Both keep their durable state in newshub.db (table favorite_sources)    *)
(* and saved/articles.json.                                                *)
(*                                                                         *)
(* Strings that the programs concatenate, split or compare are sequences   *)
(* of characters or words; a missing feed field is the empty sequence.     *)
(***************************************************************************)
EXTENDS Integers, Sequences, FiniteSets, TLC

\* ------------------------------------------------------------------ bounds
\* Model-sized stand-ins for the program's caps (source value in brackets).
RssEntryCap == 2
\* feed.entries[:20]                         [20]
MaxNewsItems == 3
\* MAX_NEWS_ITEMS / max_items                [500]
PreviewWordCap == 2
\* words[:100]                               [100]
TicksPerMinute == 2
\* clock resolution: ticks in one minute     [seconds]
MaxWorkers == 2
\* requests the host runs side by side
PAGE_SIZE == 2
\* PAGE_SIZE                                 [10]
StatsSourceCap == 2
\* sorted(...)[:20] of stats                 [20]
MaxCustomFeeds == 2
\* custom sources registered in one run

\* ------------------------------------------------------- program constants
CACHE_DURATION_MINUTES == 5

\* The clock stops one tick after the first gate interval has passed.
MaxTime == CACHE_DURATION_MINUTES * TicksPerMinute + 1

NoTime == -1
\* last_fetch_time = None
NoVal == << >>
\* a field the feed entry does not carry

\* --------------------------------------------------------------- catalog
\* ALL_FEEDS, cut down to three sources; "gone" is an id that a stale
\* selection may still hold and the catalog does not.
CatalogIds == {"lenta", "ria", "habr"}
StaleId == "gone"
AppDefaultFeeds == {"lenta", "ria"}
\* app0: ["lenta", "ria", "bbc"], abbreviated to catalog members
NFDefaultFeeds == {"habr"}
\* t1: ["habr", "pytorch", "ai_news"], abbreviated to catalog members
NFErrorDefaultFeeds == {"lenta", "ria"}

SOURCE_DISPLAY_NAMES(source_id) ==
    CASE source_id = "lenta" -> <<"L", "e", "n", "t", "a">>
      [] source_id = "ria"   -> <<"R", "I", "A">>
      [] source_id = "habr"  -> <<"H", "a", "b", "r">>
      [] OTHER               -> <<source_id>>

\* No custom_ source is registered in these runs, so the name is the table's
\* entry, or the id itself for an id the table does not have.
get_source_display_name(source_id) == SOURCE_DISPLAY_NAMES(source_id)

\* --------------------------------------------------------- feed universe
L1 == <<"a">>
L2 == <<"a", "b">>
HashLink == <<"#">>
G1 == <<"g", "1">>
G2 == <<"g", "2">>
T1 == <<"b", "c">>
T2 == <<"c">>
AppNoTitle == <<"untitled">>
\* app0: the placeholder title, lower case in the source
NFNoTitle == <<"Untitled">>
\* t1: the placeholder title, capitalised in the source

\* A published date: text is the rank of the raw string in string order
\* (0: the empty string), time its place in calendar order (0: none).
NoDate == [text |-> 0, time |-> 0]
DMon8 == [text |-> 1, time |-> 3]
DTue2 == [text |-> 2, time |-> 1]
DWed3 == [text |-> 3, time |-> 2]

S1 == <<"x", "Y">>
AppNoDesc == <<"nodesc">>
\* app0: the placeholder summary, lower case in the source
NFNoDesc == <<"Nodesc">>
\* t1: the placeholder summary, capitalised in the source

E1 == [id |-> G1, link |-> L1, title |-> T1, summary |-> S1, published |-> DWed3]
E2 == [id |-> G2, link |-> L2, title |-> T2, summary |-> NoVal, published |-> DTue2]
E3 == [id |-> G1, link |-> L2, title |-> <<"<b>", "c">>,
       summary |-> <<"<b>", "y">>, published |-> DMon8]
E4 == [id |-> NoVal, link |-> L1, title |-> T2, summary |-> NoVal, published |-> NoDate]
E5 == [id |-> NoVal, link |-> NoVal, title |-> NoVal, summary |-> NoVal,
       published |-> NoDate]
E6 == [id |-> G2, link |-> L1, title |-> T1, summary |-> S1, published |-> DMon8]
E7 == [id |-> <<"g", "3">>, link |-> <<"d">>, title |-> T1, summary |-> NoVal,
       published |-> DMon8]
E8 == [id |-> <<"g", "4">>, link |-> <<"e">>, title |-> T2, summary |-> NoVal,
       published |-> DWed3]

\* The worlds a fetch may meet: what the three remote feeds serve at that
\* moment, and the sources that fail (network error, timeout, malformed feed).
World(lenta, ria, habr, failed) ==
    [feeds |-> [lenta |-> lenta, ria |-> ria, habr |-> habr], failed |-> failed]

FetchWorlds ==
    { World(<< >>, << >>, << >>, {}),
      World(<<E1, E2>>, <<E3>>, <<E2>>, {}),
      World(<<E1, E2>>, <<E3>>, <<E2>>, {"lenta"}),
      World(<<E1, E2>>, <<E3>>, <<E2>>, CatalogIds),
      World(<<E4, E5>>, <<E5, E1>>, <<E1, E2>>, {}),
      World(<<E1, E3, E2>>, <<E2>>, <<E5, E5, E2>>, {"ria", "habr"}),
      World(<<E1, E3, E2>>, <<E6>>, <<E5, E5, E2>>, {}),
      World(<<E2, E4>>, <<E6, E2>>, <<E4>>, {}),
      World(<<E1, E2>>, <<E7, E8>>, <<E5>>, {}) }

\* A narrower set for the runs that follow the saved-article store.
ArchiveWorlds ==
    { World(<<E1, E2>>, <<E3>>, << >>, {}),
      World(<<E1, E2>>, <<E3>>, << >>, CatalogIds),
      World(<<E5>>, <<E2>>, <<E4>>, {}) }

\* ----------------------------------------------------------------- state
VARIABLES
    impl,            \* "app0" or "t1": the program this run is of
    started,         \* app0: startup_event has run; t1: __init__ has run
    now,             \* the wall clock, in ticks
    db,              \* newshub.db: the rows of favorite_sources
    selected_feeds,  \* t1: self.selected_feeds
    news,            \* app_state["news"] / self.news
    last_fetch_time, \* app_state["last_fetch_time"] / self.last_fetch_time
    seen_news,       \* app_state["seen_news"] / self.seen_news_ids
    saved_links,     \* app_state["saved_links"] / self.saved_links
    file_exists,     \* saved/articles.json exists
    store,           \* saved/articles.json: the list of saved articles
    resp,            \* what the last request answered
    reqs,            \* app0: the requests in progress, by worker
    custom_feeds     \* app0: the keys add_custom_feed put into ALL_FEEDS

cacheVars == <<news, last_fetch_time>>
selVars == <<db, selected_feeds>>
saveVars == <<saved_links, file_exists, store>>
vars == <<impl, started, now, db, selected_feeds, news, last_fetch_time,
          seen_news, saved_links, file_exists, store, resp, reqs,
          custom_feeds>>

\* ------------------------------------------------------------- sequences
Range(s) == {s[i] : i \in 1..Len(s)}

Prefix(s, n) == IF Len(s) <= n THEN s ELSE SubSeq(s, 1, n)

\* All orders in which a finite set can be walked.
RECURSIVE Orders(_)
Orders(S) ==
    IF S = {} THEN {<< >>}
    ELSE UNION {{<<x>> \o o : o \in Orders(S \ {x})} : x \in S}

\* What a request answered, with the inputs it met: for a fetch the order in
\* which the selected ids were walked and the world; for a save the link,
\* the text the collaborator returned, whether the collaborator was called
\* and how the file access went ("none", "ok", "read_failed", "write_failed");
\* for a view the sort key and source filter asked, the list it was taken
\* from (all), the page and page size asked,
\* the page and number of pages reported and the items returned, and for a
\* view of the cache the size of the cache, the time of the last fetch and
\* the number of new items it reports, and for the statistics the counts by
\* display name; for a search the query as passed.
NoWorld == World(<< >>, << >>, << >>, {})

Response(op, result) ==
    [op |-> op, result |-> result, minutes_left |-> 0,
     order |-> << >>, world |-> NoWorld,
     link |-> NoVal, text |-> << >>, extracted |-> FALSE, io |-> "none",
     all |-> << >>, asked |-> 0, page_size |-> 0, page |-> 0,
     total_pages |-> 0, items |-> << >>, query |-> << >>,
     total_news |-> 0, last_fetch_time |-> NoTime,
     new_count |-> 0, news_by_source |-> << >>, sort |-> "", source |-> ""]

FetchResponse(op, result, order, w) ==
    [Response(op, result) EXCEPT !.order = order, !.world = w]

SaveResponse(result, link, text, extracted, io) ==
    [Response("save", result) EXCEPT
        !.link = link, !.text = text, !.extracted = extracted, !.io = io]

PageResponse(op, all, asked, page_size, page, total_pages, items) ==
    [Response(op, "page") EXCEPT
        !.all = all, !.asked = asked, !.page_size = page_size, !.page = page,
        !.total_pages = total_pages, !.items = items]

SearchResponse(query, items) ==
    [Response("search", "results") EXCEPT !.query = query, !.items = items]

\* ------------------------------------------------------------- the fetch
\* str(uuid.uuid4()): a token no feed carries; the k-th one drawn in a pass.
\* Tokens are compared only inside one pass, so numbering restarts with it.
UuidDigits == <<"1", "2", "3", "4", "5", "6", "7", "8", "9">>
Uuid4(k) == <<"uuid", UuidDigits[k]>>

\* list.sort(key=..., reverse=True) over pairs [k key, v element]:
\* descending by key, elements of equal key keep their order.
RECURSIVE InsertDesc(_, _)
InsertDesc(sorted, x) ==
    IF sorted = << >> THEN <<x>>
    ELSE IF Head(sorted).k >= x.k
         THEN <<Head(sorted)>> \o InsertDesc(Tail(sorted), x)
         ELSE <<x>> \o sorted

RECURSIVE SortPairsDesc(_)
SortPairsDesc(s) ==
    IF s = << >> THEN << >>
    ELSE InsertDesc(SortPairsDesc(SubSeq(s, 1, Len(s) - 1)), s[Len(s)])

Values(sorted) == [i \in 1..Len(sorted) |-> sorted[i].v]

EmptyWalk == [items |-> << >>, seen_guids |-> {}, seen_links |-> {}, fresh |-> 0]

AppIsDuplicateGuidOnly(guid, link, acc) ==
    guid \in acc.seen_guids

\* app0 line 359: the entry repeats a guid or a link accepted in this pass.
AppIsDuplicate(guid, link, acc) ==
    guid \in acc.seen_guids \/ link \in acc.seen_links

ConsumedEntriesDespiteFailure(feed_id, feeds, failed) ==
    Prefix(feeds[feed_id], RssEntryCap)

ConsumedEntriesWholeFeed(feed_id, feeds, failed) ==
    IF feed_id \in failed THEN << >> ELSE feeds[feed_id]

\* The entries a pass consumes from one source: none when the request or the
\* parse raises (the except of the try around it), else feed.entries[:20].
ConsumedEntries(feed_id, feeds, failed) ==
    IF feed_id \in failed THEN << >> ELSE Prefix(feeds[feed_id], RssEntryCap)

\* app0 fetch_rss_feeds, lines 355-382: one entry of one feed.
AppWalkEntry(entry, feed_id, acc) ==
    LET noKey == entry.id = NoVal /\ entry.link = NoVal
        guid == IF entry.id # NoVal THEN entry.id
                ELSE IF entry.link # NoVal THEN entry.link
                ELSE Uuid4(acc.fresh + 1)
        link == IF entry.link # NoVal THEN entry.link ELSE HashLink
        drawn == IF noKey THEN acc.fresh + 1 ELSE acc.fresh
    IN IF AppIsDuplicate(guid, link, acc)
       THEN [acc EXCEPT !.fresh = drawn]
       ELSE [items |-> Append(acc.items,
                [title |-> IF entry.title # NoVal THEN entry.title ELSE AppNoTitle,
                 desc |-> IF entry.summary # NoVal THEN entry.summary ELSE AppNoDesc,
                 link |-> link,
                 date |-> entry.published.text,
                 published_parsed |-> 0,
                 sourceId |-> feed_id,
                 sourceName |-> get_source_display_name(feed_id),
                 guid |-> guid]),
             seen_guids |-> acc.seen_guids \cup {guid},
             seen_links |-> acc.seen_links \cup {link},
             fresh |-> drawn]

RECURSIVE AppWalkEntries(_, _, _)
AppWalkEntries(entries, feed_id, acc) ==
    IF entries = << >> THEN acc
    ELSE AppWalkEntries(Tail(entries), feed_id,
                        AppWalkEntry(Head(entries), feed_id, acc))

RECURSIVE AppWalkFeedsStopAtStale(_, _, _, _)
AppWalkFeedsStopAtStale(order, feeds, failed, acc) ==
    IF order = << >> \/ Head(order) \notin CatalogIds THEN acc
    ELSE AppWalkFeedsStopAtStale(Tail(order), feeds, failed,
             AppWalkEntries(ConsumedEntries(Head(order), feeds, failed),
                            Head(order), acc))

\* The for loop of fetch_rss_feeds over the selected ids in the order the set
\* yields them; a source in failed raises inside the try.
RECURSIVE AppWalkFeeds(_, _, _, _)
AppWalkFeeds(order, feeds, failed, acc) ==
    IF order = << >> THEN acc
    ELSE LET feed_id == Head(order)
         IN IF feed_id \notin CatalogIds
            THEN AppWalkFeeds(Tail(order), feeds, failed, acc)
            ELSE AppWalkFeeds(Tail(order), feeds, failed,
                     AppWalkEntries(ConsumedEntries(feed_id, feeds, failed),
                                    feed_id, acc))

AppDateKey(x) == x.date

\* news_items.sort(key=lambda x: x.get("date", ""), reverse=True)
AppSortByDate(items) ==
    Values(SortPairsDesc([i \in 1..Len(items) |->
                            [k |-> AppDateKey(items[i]), v |-> items[i]]]))

\* fetch_rss_feeds in its three stages: news_items as the walk leaves it,
\* sorted in place, then news_items[:MAX_NEWS_ITEMS].
fetch_rss_feeds(order, feeds, failed) ==
    CHOOSE merged \in
        {Prefix(sorted, MaxNewsItems) :
            sorted \in {AppSortByDate(news_items) :
                news_items \in {AppWalkFeeds(order, feeds, failed, EmptyWalk).items}}} :
        TRUE

\* t1 _clean_html: tags removed.
NF_clean_html(text) == SelectSeq(text, LAMBDA c : c # "<b>")

\* t1 _parse_entry applied to the k-th entry parsed without a date.
LatestFeedTime == DMon8.time
NF_parse_entry(entry, feed_id, k) ==
    LET link == IF entry.link # NoVal THEN entry.link ELSE HashLink
    IN [title |-> NF_clean_html(IF entry.title # NoVal THEN entry.title ELSE NFNoTitle),
        desc |-> NF_clean_html(IF entry.summary # NoVal THEN entry.summary
                               ELSE NFNoDesc),
        link |-> link,
        date |-> entry.published.text,
        published_parsed |-> IF entry.published.time # 0 THEN entry.published.time
                             ELSE LatestFeedTime + k,
        sourceId |-> feed_id,
        sourceName |-> get_source_display_name(feed_id),
        guid |-> IF entry.id # NoVal THEN entry.id ELSE link]

NF_is_unique_LinkOnly(item, acc) ==
    item.link \notin acc.seen_links

\* t1 _is_unique: neither the guid nor the link was accepted in this pass.
NF_is_unique(item, acc) ==
    item.guid \notin acc.seen_guids /\ item.link \notin acc.seen_links

NFWalkEntry(entry, feed_id, acc) ==
    LET undated == entry.published.time = 0
        k == IF undated THEN acc.fresh + 1 ELSE acc.fresh
        item == NF_parse_entry(entry, feed_id, k)
    IN IF NF_is_unique(item, acc)
       THEN [items |-> Append(acc.items, item),
             seen_guids |-> acc.seen_guids \cup {item.guid},
             seen_links |-> acc.seen_links \cup {item.link},
             fresh |-> k]
       ELSE [acc EXCEPT !.fresh = k]

RECURSIVE NFWalkEntries(_, _, _)
NFWalkEntries(entries, feed_id, acc) ==
    IF entries = << >> THEN acc
    ELSE NFWalkEntries(Tail(entries), feed_id,
                       NFWalkEntry(Head(entries), feed_id, acc))

RECURSIVE NFWalkFeeds(_, _, _, _)
NFWalkFeeds(order, feeds, failed, acc) ==
    IF order = << >> THEN acc
    ELSE LET feed_id == Head(order)
         IN IF feed_id \notin CatalogIds
            THEN NFWalkFeeds(Tail(order), feeds, failed, acc)
            ELSE NFWalkFeeds(Tail(order), feeds, failed,
                     NFWalkEntries(ConsumedEntries(feed_id, feeds, failed),
                                   feed_id, acc))

NFDateKey(x) == x.published_parsed

\* all_items.sort(key=lambda x: x.get("published_parsed", ...), reverse=True)
NFSortByDate(items) ==
    Values(SortPairsDesc([i \in 1..Len(items) |->
                            [k |-> NFDateKey(items[i]), v |-> items[i]]]))

\* t1 fetch_news, lines 252-291: the list that becomes self.news.
NFMerge(order, feeds, failed) ==
    Prefix(NFSortByDate(NFWalkFeeds(order, feeds, failed, EmptyWalk).items),
           MaxNewsItems)

\* The sources a walk asks, and those of them that answer.
Contacted(order) == Range(order) \cap CatalogIds
Reached(order, failed) == Contacted(order) \ failed

\* ------------------------------------------------------ the durable stores
\* What the page-text collaborator may return. fetch_full_text_from_page
\* ends with re.sub(r"\s+", " ", text).strip(), so the text is words with
\* one blank between them and none around them: the list of its words,
\* empty when the extraction failed. On such a text split() and " ".join
\* are inverse to each other.
Texts ==
    {<< >>, <<"w1", "w2">>, <<"w1", "w2", "w3">>, <<"w1", "w2", "w3", "w4">>}




OldArticle ==
    [sourceUrl |-> L1, preview100 |-> T1 \o <<". ">> \o <<"w1">>,
     fullText |-> <<"w1">>, savedAt |-> 0,
     sourceName |-> get_source_display_name("lenta"), title |-> T1, id |-> NoVal]

\* saved/articles.json as a run may find it: absent, empty, or holding an
\* article saved by an earlier run.
InitialStores ==
    {[exists |-> FALSE, articles |-> << >>],
     [exists |-> TRUE, articles |-> << >>],
     [exists |-> TRUE, articles |-> <<OldArticle>>]}

SourceUrls(articles) == {articles[i].sourceUrl : i \in 1..Len(articles)}

\* app0 load_selected_feeds.
load_selected_feeds(rows) == IF rows # {} THEN rows ELSE AppDefaultFeeds

\* app0 load_saved_articles: the list read, [] when the file is absent or
\* when reading it raises.
load_saved_articles(exists, articles, readOk) ==
    IF ~exists THEN << >>
    ELSE IF readOk THEN articles
    ELSE << >>

AlreadyInNever(link, saved_articles) == FALSE

\* app0 line 328 / t1 line 497: the list read holds an article of this link.
AlreadyIn(link, saved_articles) == link \in SourceUrls(saved_articles)

\* How the file access of one request goes: at most one of the read and
\* the write raises; a write that raises does so in open(), before the file
\* is touched.
IoOutcomes == {"ok", "read_failed", "write_failed"}

\* app0 save_article: ret is what the call returns ("raised" when the write
\* raises), articles and exists are the file afterwards, io what happened.
save_article(article, link, exists, articles, io) ==
    LET readOk == io # "read_failed"
        saved_articles == load_saved_articles(exists, articles, readOk)
        met == IF exists /\ ~readOk THEN "read_failed" ELSE "ok"
    IN IF AlreadyIn(link, saved_articles)
       THEN [ret |-> "False", exists |-> exists, articles |-> articles, io |-> met]
       ELSE IF io = "write_failed"
       THEN [ret |-> "raised", exists |-> exists, articles |-> articles,
             io |-> "write_failed"]
       ELSE [ret |-> "True", exists |-> TRUE,
             articles |-> Append(saved_articles, article), io |-> met]

NoTextNever(full_text) == FALSE

\* if not full_text
NoText(full_text) == full_text = << >>

Preview100Whole(words) == words

\* words[:100] joined, or the text itself when it has no more words.
Preview100(words) ==
    IF Len(words) > PreviewWordCap THEN SubSeq(words, 1, PreviewWordCap) ELSE words

PreviewWithTitle(title, words) == title \o <<". ">> \o Preview100(words)

FindArticleFirst(link) == IF news = << >> THEN 0 ELSE 1

\* The first cached item with this link (the for loop with break).
FindArticle(link) ==
    LET hits == {i \in 1..Len(news) : news[i].link = link}
    IN IF hits = {} THEN 0 ELSE CHOOSE i \in hits : \A j \in hits : i <= j

\* A request between two of its steps. For /save: where it stands, the link
\* posted, the cached item found, the text extracted, the list read from the
\* file, and its answer. For /fetch: the time read at entry (at), the order
\* in which the selection is walked, what the network serves (world), the
\* sources that never answer (hung), and the list stored (merged).
Workers == 1..MaxWorkers

IdleRequest ==
    [pc |-> "idle", link |-> NoVal, title |-> NoVal, sourceName |-> NoVal,
     text |-> << >>, savedAt |-> 0, loaded |-> << >>, wrote |-> FALSE,
     at |-> NoTime, order |-> << >>, world |-> NoWorld, hung |-> {},
     merged |-> << >>, result |-> "none"]

\* app_state["lock"] is free: no request is inside the one stretch that
\* holds it across a call that can wait, the walk of the feeds in /fetch.
LockFree == \A r \in Workers : reqs[r].pc # "fetching"

\* ------------------------------------------------------------- the views
Max(a, b) == IF a >= b THEN a ELSE b
Min(a, b) == IF a <= b THEN a ELSE b

\* list[start:end] for 0 <= start: the elements at 0-based positions
\* start .. end-1 that the list has.
Slice(list, start, end) ==
    IF start >= Min(end, Len(list)) THEN << >>
    ELSE SubSeq(list, start + 1, Min(end, Len(list)))

\* app0 index lines 434-440 and saved_news lines 690-695.
AppPaginate(list, page, page_size) ==
    LET total_items == Len(list)
        total_pages == Max(1, (total_items + page_size - 1) \div page_size)
        p == Max(1, Min(page, total_pages))
        start_idx == (p - 1) * page_size
        end_idx == Min(start_idx + page_size, total_items)
    IN [page |-> p, total_pages |-> total_pages,
        items |-> Slice(list, start_idx, end_idx)]

\* t1 get_saved_articles lines 544-553, for a file that was read.
NFPaginate(list, page, page_size) ==
    LET total == Len(list)
        total_pages == (total + page_size - 1) \div page_size
        p == Max(1, Min(page, IF total_pages > 0 THEN total_pages ELSE 1))
        start_idx == (p - 1) * page_size
        end_idx == start_idx + page_size
    IN [page |-> p, total_pages |-> total_pages,
        items |-> Slice(list, start_idx, end_idx)]

\* str.lower(), character by character; the placeholders are one token.
LowerChar(c) ==
    CASE c = "A" -> "a"
      [] c = "H" -> "h"
      [] c = "I" -> "i"
      [] c = "L" -> "l"
      [] c = "R" -> "r"
      [] c = "C" -> "c"
      [] c = "Y" -> "y"
      [] c = "Untitled" -> "untitled"
      [] c = "Nodesc" -> "nodesc"
      [] OTHER -> c

Lower(text) == [i \in 1..Len(text) |-> LowerChar(text[i])]

\* str.strip(): leading and trailing blanks removed.
RECURSIVE StripLeft(_)
StripLeft(text) ==
    IF text # << >> /\ Head(text) = " " THEN StripLeft(Tail(text)) ELSE text

RECURSIVE StripRight(_)
StripRight(text) ==
    IF text # << >> /\ text[Len(text)] = " "
    THEN StripRight(SubSeq(text, 1, Len(text) - 1))
    ELSE text

Strip(text) == StripRight(StripLeft(text))

\* Python's "needle in text" for strings: true for the empty needle.
IsSubstring(needle, text) ==
    \E i \in 0..(Len(text) - Len(needle)) :
        SubSeq(text, i + 1, i + Len(needle)) = needle

\* The test of the search loop, app0 lines 576-581 / t1 lines 592-597.
Matches(query_lower, item) ==
    \/ IsSubstring(query_lower, Lower(item.title))
    \/ IsSubstring(query_lower, Lower(item.desc))
    \/ IsSubstring(query_lower, Lower(item.sourceName))

\* app0 search, for a q that passed min_length=1.
AppSearch(q) ==
    LET query == Strip(q)
    IN SelectSeq(news, LAMBDA item : Matches(Lower(query), item))

\* t1 search_news.
NFSearch(query) ==
    IF query = << >> \/ Strip(query) = << >> THEN << >>
    ELSE SelectSeq(news, LAMBDA item : Matches(Lower(query), item))

\* The order of two lower-cased strings as the order of two numbers: the
\* characters are digits in base CharBase, most significant first.
CharCode(c) ==
    CASE c = "<b>" -> 1
      [] c = "a" -> 2
      [] c = "b" -> 3
      [] c = "c" -> 4
      [] c = "e" -> 5
      [] c = "h" -> 6
      [] c = "i" -> 7
      [] c = "l" -> 8
      [] c = "n" -> 9
      [] c = "r" -> 10
      [] c = "t" -> 11
      [] c = "untitled" -> 12
      [] OTHER -> 13

CharBase == 14
StrKeyLen == 5

RECURSIVE StrKeyFrom(_, _)
StrKeyFrom(text, i) ==
    IF i > StrKeyLen THEN 0
    ELSE (IF i <= Len(text) THEN CharCode(text[i]) ELSE 0)
            * CharBase ^ (StrKeyLen - i)
         + StrKeyFrom(text, i + 1)

StrKey(text) == StrKeyFrom(text, 1)

\* sorted(filtered_news, key=...) of app0 index, lines 422-432.
AppSortedView(list, sort) ==
    IF sort = "title"
    THEN Values(SortPairsDesc([i \in 1..Len(list) |->
            [k |-> 0 - StrKey(Lower(list[i].title)), v |-> list[i]]]))
    ELSE IF sort = "source"
    THEN Values(SortPairsDesc([i \in 1..Len(list) |->
            [k |-> 0 - StrKey(Lower(list[i].sourceName)), v |-> list[i]]]))
    ELSE AppSortByDate(list)

\* filtered_news of app0 index, lines 418-420; "if source" is false for None
\* and for the empty string alike, both written "" here.
AppFiltered(source) ==
    IF source # ""
    THEN SelectSeq(news, LAMBDA n : n.sourceId = source)
    ELSE news

\* news_id = item["link"] + item["title"]
Fingerprint(item) == item.link \o item.title

get_new_news_count_Seen ==
    Cardinality({i \in 1..Len(news) : Fingerprint(news[i]) \in seen_news})

\* NewsFetcher.get_new_news_count, and new_count of app0 index: the cached
\* items whose fingerprint is not in the viewed set.
get_new_news_count ==
    Cardinality({i \in 1..Len(news) : Fingerprint(news[i]) \notin seen_news})

\* The dict both statistics build in one walk of the cache (app0 lines
\* 643-646, t1 342-345): a count for each display name, the names in the
\* order in which the walk first meets them.
news_by_source(items) ==
    LET RECURSIVE Names(_, _)
        Names(k, names) ==
            IF k > Len(items) THEN names
            ELSE IF \E i \in 1..Len(names) : names[i] = items[k].sourceName
                 THEN Names(k + 1, names)
                 ELSE Names(k + 1, Append(names, items[k].sourceName))
        names == Names(1, << >>)
    IN [i \in 1..Len(names) |->
           [name |-> names[i],
            count |-> Cardinality({k \in 1..Len(items) :
                                      items[k].sourceName = names[i]})]]

\* app0 line 649: sorted(news_by_source.items(), key=count, reverse=True)[:20]
sorted_sources(items) ==
    Prefix(Values(SortPairsDesc([i \in 1..Len(news_by_source(items)) |->
                [k |-> news_by_source(items)[i].count,
                 v |-> news_by_source(items)[i]]])),
           StatsSourceCap)

\* ------------------------------------------------------------------ runs
InitOver(dbs, stores) ==
    /\ impl \in {"app0", "t1"}
    /\ started = FALSE
    /\ now = 0
    /\ db \in dbs
    /\ selected_feeds = {}
    /\ news = << >>
    /\ last_fetch_time = NoTime
    /\ seen_news = {}
    /\ saved_links = {}
    /\ \E f \in stores : file_exists = f.exists /\ store = f.articles
    /\ resp = Response("none", "none")
    /\ reqs = [r \in Workers |-> IdleRequest]
    /\ custom_feeds = << >>

\* The clock moves on by step ticks.
Tick(step) ==
    /\ started
    /\ now + step <= MaxTime
    /\ now' = now + step
    /\ UNCHANGED <<custom_feeds, reqs, impl, started, db, selected_feeds, news, last_fetch_time,
                   seen_news, saved_links, file_exists, store, resp>>

\* ------------------------------------------------------------- app0.py
\* startup_event: init_database, the saved links, the first fetch.
App_startup_event(worlds) ==
    /\ impl = "app0"
    /\ ~started
    /\ \E readOk \in BOOLEAN, w \in worlds :
         LET rows == IF db = {} THEN AppDefaultFeeds ELSE db
             selected == load_selected_feeds(rows)
         IN \E order \in Orders(selected) :
              /\ db' = rows
              /\ saved_links' = SourceUrls(load_saved_articles(file_exists, store, readOk))
              /\ news' = fetch_rss_feeds(order, w.feeds, w.failed)
              /\ last_fetch_time' = now
              /\ resp' = FetchResponse("startup", "done", order, w)
    /\ started' = TRUE
    /\ UNCHANGED <<custom_feeds, reqs, impl, now, selected_feeds, seen_news, file_exists, store>>

GateClosedInverted(last, at) ==
    last # NoTime /\ at - last > CACHE_DURATION_MINUTES * TicksPerMinute

\* The gate of fetch_news: elapsed < timedelta(minutes=CACHE_DURATION_MINUTES).
GateClosed(last, at) ==
    last # NoTime /\ at - last < CACHE_DURATION_MINUTES * TicksPerMinute

MinutesLeftRoundedDown(last, at) ==
    CACHE_DURATION_MINUTES - ((at - last + TicksPerMinute - 1) \div TicksPerMinute)

\* minutes_left, line 549: the interval less the whole minutes elapsed.
MinutesLeft(last, at) ==
    CACHE_DURATION_MINUTES - ((at - last) \div TicksPerMinute)

\* POST /fetch.
App_fetch_news(worlds) ==
    /\ impl = "app0"
    /\ started
    /\ IF GateClosed(last_fetch_time, now)
       THEN /\ resp' = [Response("fetch", "rejected") EXCEPT
                            !.minutes_left = MinutesLeft(last_fetch_time, now)]
            /\ UNCHANGED cacheVars
       ELSE \E dbOk \in BOOLEAN, w \in worlds :
              IF ~dbOk
              THEN /\ resp' = Response("fetch", "error")
                   /\ UNCHANGED cacheVars
              ELSE \E order \in Orders(load_selected_feeds(db)) :
                     /\ news' = fetch_rss_feeds(order, w.feeds, w.failed)
                     /\ last_fetch_time' = now
                     /\ resp' = FetchResponse("fetch", "accepted", order, w)
    /\ UNCHANGED <<custom_feeds, reqs, impl, started, now, db, selected_feeds, seen_news,
                   saved_links, file_exists, store>>

\* POST /update-sources.
App_update_sources(choices) ==
    /\ impl = "app0"
    /\ started
    /\ \E source \in choices : db' = source
    /\ resp' = Response("update_sources", "done")
    /\ UNCHANGED <<custom_feeds, reqs, impl, started, now, selected_feeds, news, last_fetch_time,
                   seen_news, saved_links, file_exists, store>>

\* POST /add-custom-feed: the id is custom_ and the clock's whole seconds
\* (line 527); the url goes under the id and the name under id_name (530,
\* 531), whatever these keys held; then the id joins the stored selection
\* (534-536), unless reading it raises.
App_add_custom_feed(names, urls) ==
    /\ impl = "app0"
    /\ started
    /\ \E name \in names, url \in urls, dbOk \in BOOLEAN :
         LET feed_id == "custom_" \o ToString(now)
             name_key == feed_id \o "_name"
         IN /\ \/ feed_id \in DOMAIN custom_feeds
               \/ Cardinality(DOMAIN custom_feeds) < 2 * MaxCustomFeeds
            /\ custom_feeds' =
                   [key \in DOMAIN custom_feeds \cup {feed_id, name_key} |->
                       IF key = feed_id THEN url
                       ELSE IF key = name_key THEN name
                       ELSE custom_feeds[key]]
            /\ IF dbOk
               THEN /\ db' = load_selected_feeds(db) \cup {feed_id}
                    /\ resp' = Response("add_custom_feed", "done")
               ELSE /\ db' = db
                    /\ resp' = Response("add_custom_feed", "error")
    /\ UNCHANGED <<reqs, impl, started, now, selected_feeds, news, last_fetch_time,
                   seen_news, saved_links, file_exists, store>>

\* GET /clear-cache.
App_clear_cache ==
    /\ impl = "app0"
    /\ started
    /\ seen_news' = {}
    /\ resp' = Response("clear_cache", "done")
    /\ UNCHANGED <<custom_feeds, reqs, impl, started, now, db, selected_feeds, news, last_fetch_time,
                   saved_links, file_exists, store>>

\* POST /save.
App_save_article_endpoint(texts) ==
    /\ impl = "app0"
    /\ started
    /\ \E link \in {L1, L2, HashLink}, full_text \in texts, io \in IoOutcomes :
         LET at == FindArticle(link)
         IN IF at = 0
            THEN /\ resp' = SaveResponse("not_found", link, << >>, FALSE, "none")
                 /\ UNCHANGED saveVars
            ELSE IF NoText(full_text)
            THEN /\ resp' = SaveResponse("no_text", link, full_text, TRUE, "none")
                 /\ UNCHANGED saveVars
            ELSE LET article == news[at]
                     article_data ==
                         [sourceUrl |-> link,
                          preview100 |-> PreviewWithTitle(article.title, full_text),
                          fullText |-> full_text,
                          savedAt |-> now,
                          sourceName |-> article.sourceName,
                          title |-> article.title,
                          id |-> NoVal]
                     done == save_article(article_data, link, file_exists, store, io)
                 IN /\ store' = done.articles
                    /\ file_exists' = done.exists
                    /\ saved_links' = IF done.ret = "True"
                                      THEN saved_links \cup {link}
                                      ELSE saved_links
                    /\ resp' = SaveResponse(
                                   IF done.ret = "raised" THEN "error" ELSE "home",
                                   link, full_text, TRUE, done.io)
    /\ UNCHANGED <<custom_feeds, reqs, impl, started, now, db, selected_feeds, news, last_fetch_time,
                   seen_news>>

App_index_SortsCache(pages, sorts, sources) ==
    /\ impl = "app0"
    /\ started
    /\ \E page \in pages, sort \in sorts, source \in sources :
         LET sorted_news == AppSortedView(AppFiltered(source), sort)
             shown == AppPaginate(sorted_news, page, PAGE_SIZE)
         IN /\ resp' = [PageResponse("index", sorted_news, page, PAGE_SIZE,
                                     shown.page, shown.total_pages, shown.items)
                           EXCEPT !.total_news = Len(news),
                                  !.last_fetch_time = last_fetch_time,
                                  !.new_count = get_new_news_count,
                                  !.sort = sort, !.source = source]
            /\ news' = IF source = "" THEN sorted_news ELSE news
    /\ UNCHANGED <<custom_feeds, reqs, impl, started, now, db, selected_feeds,
                   last_fetch_time, seen_news, saved_links, file_exists, store>>

\* GET /: the page of the filtered, sorted cache. page is declared ge=1, so
\* the handler runs only for page >= 1.
App_index(pages, sorts, sources) ==
    /\ impl = "app0"
    /\ started
    /\ \E page \in pages, sort \in sorts, source \in sources :
         LET sorted_news == AppSortedView(AppFiltered(source), sort)
             shown == AppPaginate(sorted_news, page, PAGE_SIZE)
         IN resp' = [PageResponse("index", sorted_news, page, PAGE_SIZE,
                                  shown.page, shown.total_pages, shown.items)
                        EXCEPT !.total_news = Len(news),
                               !.last_fetch_time = last_fetch_time,
                               !.new_count = get_new_news_count,
                               !.sort = sort, !.source = source]
    /\ UNCHANGED <<custom_feeds, reqs, impl, started, now, db, selected_feeds, news, last_fetch_time,
                   seen_news, saved_links, file_exists, store>>

\* GET /saved.
App_saved_news(pages) ==
    /\ impl = "app0"
    /\ started
    /\ \E page \in pages, readOk \in BOOLEAN :
         LET saved_articles == load_saved_articles(file_exists, store, readOk)
             shown == AppPaginate(saved_articles, page, PAGE_SIZE)
         IN resp' = PageResponse("saved", saved_articles, page, PAGE_SIZE,
                                 shown.page, shown.total_pages, shown.items)
    /\ UNCHANGED <<custom_feeds, reqs, impl, started, now, db, selected_feeds, news, last_fetch_time,
                   seen_news, saved_links, file_exists, store>>

\* GET /search: q is declared min_length=1, so an empty q is answered by
\* the framework with a validation error and the handler does not run.
App_search(queries) ==
    /\ impl = "app0"
    /\ started
    /\ \E q \in queries :
         resp' = IF q = << >>
                 THEN [Response("search", "invalid") EXCEPT !.query = q]
                 ELSE SearchResponse(q, AppSearch(q))
    /\ UNCHANGED <<custom_feeds, reqs, impl, started, now, db, selected_feeds, news, last_fetch_time,
                   seen_news, saved_links, file_exists, store>>

\* POST /save, step by step. The handler takes the lock only around the
\* search of the cache (lines 599-603) and around the update of saved_links
\* (lines 630-631); between these a host that runs requests side by side
\* may switch to another request. Each action below is one stretch of the
\* handler that runs without such a switch; a write replaces the file whole.
Save_lookup(r) ==
    /\ impl = "app0"
    /\ started
    /\ reqs[r].pc = "idle"
    /\ LockFree
    /\ \E link \in {L1, L2, HashLink} :
         LET at == FindArticle(link)
         IN reqs' = [reqs EXCEPT ![r] =
                IF at = 0
                THEN [IdleRequest EXCEPT !.pc = "done", !.link = link,
                                         !.result = "not_found"]
                ELSE [IdleRequest EXCEPT !.pc = "found", !.link = link,
                                         !.title = news[at].title,
                                         !.sourceName = news[at].sourceName]]
    /\ UNCHANGED <<custom_feeds, impl, started, now, db, selected_feeds, news, last_fetch_time,
                   seen_news, saved_links, file_exists, store, resp>>

Save_extract(r, texts) ==
    /\ reqs[r].pc = "found"
    /\ \E full_text \in texts :
         reqs' = [reqs EXCEPT ![r] =
             IF NoText(full_text)
             THEN [@ EXCEPT !.pc = "done", !.result = "no_text"]
             ELSE [@ EXCEPT !.pc = "extracted", !.text = full_text,
                            !.savedAt = now]]
    /\ UNCHANGED <<custom_feeds, impl, started, now, db, selected_feeds, news, last_fetch_time,
                   seen_news, saved_links, file_exists, store, resp>>

\* save_article, lines 325-329.
Save_load(r) ==
    /\ reqs[r].pc = "extracted"
    /\ \E readOk \in BOOLEAN :
         LET saved_articles == load_saved_articles(file_exists, store, readOk)
         IN reqs' = [reqs EXCEPT ![r] =
                IF AlreadyIn(reqs[r].link, saved_articles)
                THEN [@ EXCEPT !.pc = "done", !.result = "home"]
                ELSE [@ EXCEPT !.pc = "loaded", !.loaded = saved_articles]]
    /\ UNCHANGED <<custom_feeds, impl, started, now, db, selected_feeds, news, last_fetch_time,
                   seen_news, saved_links, file_exists, store, resp>>

\* save_article, lines 332-338.
Save_write(r) ==
    /\ reqs[r].pc = "loaded"
    /\ \E writeOk \in BOOLEAN :
         IF writeOk
         THEN /\ store' = Append(reqs[r].loaded,
                     [sourceUrl |-> reqs[r].link,
                      preview100 |-> PreviewWithTitle(reqs[r].title, reqs[r].text),
                      fullText |-> reqs[r].text,
                      savedAt |-> reqs[r].savedAt,
                      sourceName |-> reqs[r].sourceName,
                      title |-> reqs[r].title,
                      id |-> NoVal])
              /\ file_exists' = TRUE
              /\ reqs' = [reqs EXCEPT ![r] = [@ EXCEPT !.pc = "written",
                                                       !.wrote = TRUE]]
         ELSE /\ reqs' = [reqs EXCEPT ![r] = [@ EXCEPT !.pc = "done",
                                                       !.result = "error"]]
              /\ UNCHANGED <<file_exists, store>>
    /\ UNCHANGED <<custom_feeds, impl, started, now, db, selected_feeds, news, last_fetch_time,
                   seen_news, saved_links, resp>>

\* Lines 629-633.
Save_index(r) ==
    /\ reqs[r].pc = "written"
    /\ LockFree
    /\ saved_links' = saved_links \cup {reqs[r].link}
    /\ reqs' = [reqs EXCEPT ![r] = [@ EXCEPT !.pc = "done", !.result = "home"]]
    /\ UNCHANGED <<custom_feeds, impl, started, now, db, selected_feeds, news, last_fetch_time,
                   seen_news, file_exists, store, resp>>

\* GET /stats: the counts and the time of the last fetch, read under the
\* lock.
App_stats ==
    /\ impl = "app0"
    /\ started
    /\ resp' = [Response("stats", "counts") EXCEPT
                    !.total_news = Len(news),
                    !.last_fetch_time = last_fetch_time,
                    !.new_count = get_new_news_count,
                    !.news_by_source = sorted_sources(news)]
    /\ UNCHANGED <<custom_feeds, reqs, impl, started, now, db, selected_feeds, news, last_fetch_time,
                   seen_news, saved_links, file_exists, store>>

\* POST /fetch, step by step. The handler reads the clock and tests the gate
\* without the lock (lines 543-553), reads the selection (556), then takes
\* the lock and, holding it, walks the feeds and stores the list and the
\* time read at entry (557-559).
Fetch_gate(r) ==
    /\ impl = "app0"
    /\ started
    /\ reqs[r].pc = "idle"
    /\ reqs' = [reqs EXCEPT ![r] =
           IF GateClosed(last_fetch_time, now)
           THEN [IdleRequest EXCEPT !.pc = "done", !.at = now, !.result = "rejected"]
           ELSE [IdleRequest EXCEPT !.pc = "passed", !.at = now]]
    /\ UNCHANGED <<custom_feeds, impl, started, now, db, selected_feeds, news, last_fetch_time,
                   seen_news, saved_links, file_exists, store, resp>>

\* Lines 556-557: load_selected_feeds, which may raise, and the lock taken;
\* what the sources will serve is fixed from here on.
Fetch_lock(r, worlds, hangs) ==
    /\ reqs[r].pc = "passed"
    /\ LockFree
    /\ \E dbOk \in BOOLEAN, w \in worlds, hung \in hangs :
         IF ~dbOk
         THEN reqs' = [reqs EXCEPT ![r] = [@ EXCEPT !.pc = "done", !.result = "error"]]
         ELSE \E order \in Orders(load_selected_feeds(db)) :
                reqs' = [reqs EXCEPT ![r] =
                    [@ EXCEPT !.pc = "fetching", !.order = order, !.world = w,
                              !.hung = hung]]
    /\ UNCHANGED <<custom_feeds, impl, started, now, db, selected_feeds, news, last_fetch_time,
                   seen_news, saved_links, file_exists, store, resp>>

Fetch_finish_NewsOnly(r) ==
    /\ reqs[r].pc = "fetching"
    /\ Contacted(reqs[r].order) \cap reqs[r].hung = {}
    /\ LET merged == fetch_rss_feeds(reqs[r].order, reqs[r].world.feeds,
                                     reqs[r].world.failed)
       IN /\ news' = merged
          /\ reqs' = [reqs EXCEPT ![r] = [@ EXCEPT !.pc = "done", !.merged = merged,
                                                   !.result = "accepted"]]
    /\ UNCHANGED <<custom_feeds, impl, started, now, db, selected_feeds, last_fetch_time,
                   seen_news, saved_links, file_exists, store, resp>>

\* Lines 558-561: feedparser.parse(url) is called without a timeout, so the
\* walk returns only when every source asked has answered or failed; then
\* the list and the time are stored and the lock is released.
Fetch_finish(r) ==
    /\ reqs[r].pc = "fetching"
    /\ Contacted(reqs[r].order) \cap reqs[r].hung = {}
    /\ LET merged == fetch_rss_feeds(reqs[r].order, reqs[r].world.feeds,
                                     reqs[r].world.failed)
       IN /\ news' = merged
          /\ last_fetch_time' = reqs[r].at
          /\ reqs' = [reqs EXCEPT ![r] = [@ EXCEPT !.pc = "done", !.merged = merged,
                                                   !.result = "accepted"]]
    /\ UNCHANGED <<custom_feeds, impl, started, now, db, selected_feeds,
                   seen_news, saved_links, file_exists, store, resp>>

\* --------------------------------------------------------------- t1.py
\* NewsFetcher.__init__: init_database, load_selected_feeds_from_db,
\* load_saved_links.
NF_init ==
    /\ impl = "t1"
    /\ ~started
    /\ \E dbOk \in BOOLEAN, readOk \in BOOLEAN :
         /\ IF ~dbOk
            THEN /\ selected_feeds' = NFErrorDefaultFeeds
                 /\ db' = db
            ELSE IF db = {}
            THEN /\ selected_feeds' = NFDefaultFeeds
                 /\ db' = NFDefaultFeeds
            ELSE /\ selected_feeds' = db
                 /\ db' = db
         /\ saved_links' = IF file_exists /\ readOk THEN SourceUrls(store) ELSE {}
    /\ started' = TRUE
    /\ resp' = Response("init", "done")
    /\ UNCHANGED <<custom_feeds, reqs, impl, now, news, last_fetch_time, seen_news, file_exists, store>>

NF_fetch_news_NewSession(worlds) ==
    /\ impl = "t1"
    /\ started
    /\ \E w \in worlds, order \in Orders(selected_feeds) :
         /\ news' = NFMerge(order, w.feeds, w.failed)
         /\ last_fetch_time' = now
         /\ resp' = FetchResponse("fetch", "accepted", order, w)
    /\ seen_news' = {}
    /\ UNCHANGED <<custom_feeds, reqs, impl, started, now, db, selected_feeds,
                   saved_links, file_exists, store>>

\* NewsFetcher.fetch_news(selected_feeds): the list passed, or with the
\* default argument None list(self.selected_feeds).
NF_fetch_news(worlds) ==
    /\ impl = "t1"
    /\ started
    /\ \E chosen \in {selected_feeds, {}, {"ria", StaleId}}, w \in worlds :
         IF chosen = {}
            THEN /\ resp' = Response("fetch", "no_sources")
                 /\ UNCHANGED cacheVars
            ELSE \E order \in Orders(chosen) :
                   /\ news' = NFMerge(order, w.feeds, w.failed)
                   /\ last_fetch_time' = now
                   /\ resp' = FetchResponse("fetch", "accepted", order, w)
    /\ UNCHANGED <<custom_feeds, reqs, impl, started, now, db, selected_feeds, seen_news,
                   saved_links, file_exists, store>>

\* NewsFetcher.get_stats: the dict as the walk built it.
NF_get_stats ==
    /\ impl = "t1"
    /\ started
    /\ resp' = [Response("stats", "counts") EXCEPT
                    !.total_news = Len(news),
                    !.last_fetch_time = last_fetch_time,
                    !.news_by_source = news_by_source(news)]
    /\ UNCHANGED <<custom_feeds, reqs, impl, started, now, db, selected_feeds, news,
                   last_fetch_time, seen_news, saved_links, file_exists, store>>

\* NewsFetcher.get_new_news_count, as a request.
NF_get_new_news_count ==
    /\ impl = "t1"
    /\ started
    /\ resp' = [Response("new_count", "counts") EXCEPT
                    !.new_count = get_new_news_count]
    /\ UNCHANGED <<custom_feeds, reqs, impl, started, now, db, selected_feeds, news,
                   last_fetch_time, seen_news, saved_links, file_exists, store>>

\* NewsFetcher.mark_as_viewed, for an item of the cache.
NF_mark_as_viewed ==
    /\ impl = "t1"
    /\ started
    /\ \E i \in 1..Len(news) : seen_news' = seen_news \cup {Fingerprint(news[i])}
    /\ resp' = Response("mark_as_viewed", "done")
    /\ UNCHANGED <<custom_feeds, reqs, impl, started, now, db, selected_feeds, news, last_fetch_time,
                   saved_links, file_exists, store>>

\* NewsFetcher.clear_viewed_cache.
NF_clear_viewed_cache ==
    /\ impl = "t1"
    /\ started
    /\ seen_news' = {}
    /\ resp' = Response("clear_cache", "done")
    /\ UNCHANGED <<custom_feeds, reqs, impl, started, now, db, selected_feeds, news, last_fetch_time,
                   saved_links, file_exists, store>>

\* NewsFetcher.get_saved_articles(page, page_size).
NF_get_saved_articles(pages, sizes) ==
    /\ impl = "t1"
    /\ started
    /\ \E page \in pages, page_size \in sizes, readOk \in BOOLEAN :
         IF ~file_exists \/ ~readOk
         THEN resp' = PageResponse("saved", << >>, page, page_size, page, 0, << >>)
         ELSE LET shown == NFPaginate(store, page, page_size)
              IN resp' = PageResponse("saved", store, page, page_size,
                                      shown.page, shown.total_pages, shown.items)
    /\ UNCHANGED <<custom_feeds, reqs, impl, started, now, db, selected_feeds, news, last_fetch_time,
                   seen_news, saved_links, file_exists, store>>

\* NewsFetcher.search_news(query).
NF_search_news(queries) ==
    /\ impl = "t1"
    /\ started
    /\ \E query \in queries : resp' = SearchResponse(query, NFSearch(query))
    /\ UNCHANGED <<custom_feeds, reqs, impl, started, now, db, selected_feeds, news, last_fetch_time,
                   seen_news, saved_links, file_exists, store>>

\* NewsFetcher.save_article(link).
NF_save_article(texts) ==
    /\ impl = "t1"
    /\ started
    /\ \E link \in {L1, L2, HashLink}, full_text \in texts, io \in IoOutcomes :
         LET at == FindArticle(link)
         IN IF at = 0
            THEN /\ resp' = SaveResponse("not_found", link, << >>, FALSE, "none")
                 /\ UNCHANGED saveVars
            ELSE IF link \in saved_links
            THEN /\ resp' = SaveResponse("already_saved", link, << >>, FALSE, "none")
                 /\ UNCHANGED saveVars
            ELSE IF NoText(full_text)
            THEN /\ resp' = SaveResponse("no_text", link, full_text, TRUE, "none")
                 /\ UNCHANGED saveVars
            ELSE IF file_exists /\ io = "read_failed"
            THEN /\ resp' = SaveResponse("error", link, full_text, TRUE, "read_failed")
                 /\ UNCHANGED saveVars
            ELSE LET article == news[at]
                     all_articles == IF file_exists THEN store ELSE << >>
                     article_data ==
                         [sourceUrl |-> link,
                          preview100 |-> PreviewWithTitle(article.title, full_text),
                          fullText |-> full_text,
                          savedAt |-> now,
                          sourceName |-> article.sourceName,
                          title |-> article.title,
                          id |-> Uuid4(Len(all_articles) + 1)]
                 IN IF AlreadyIn(link, all_articles)
                    THEN /\ resp' = SaveResponse("already_saved", link, full_text,
                                                 TRUE, "ok")
                         /\ UNCHANGED saveVars
                    ELSE IF io = "write_failed"
                    THEN /\ resp' = SaveResponse("error", link, full_text, TRUE,
                                                 "write_failed")
                         /\ UNCHANGED saveVars
                    ELSE /\ store' = Append(all_articles, article_data)
                         /\ file_exists' = TRUE
                         /\ saved_links' = saved_links \cup {link}
                         /\ resp' = SaveResponse("saved", link, full_text, TRUE, "ok")
    /\ UNCHANGED <<custom_feeds, reqs, impl, started, now, db, selected_feeds, news, last_fetch_time,
                   seen_news>>

\* ------------------------------------------------------- specifications
\* Spec: the refresh path of both programs, over the wide feed universe,
\* the clock moving in whole minutes.
Startup == App_startup_event(FetchWorlds)
Fetch == App_fetch_news(FetchWorlds)
NFFetch == NF_fetch_news(FetchWorlds)

Next ==
    \/ Tick(TicksPerMinute)
    \/ Startup
    \/ Fetch
    \/ App_update_sources({{}, {"lenta"}, {"lenta", "ria"}, {"ria", StaleId},
                           {"habr", "lenta", "ria"}})
    \/ NF_init
    \/ NFFetch

Init ==
    InitOver({{}, {"lenta", "ria"}, {"habr", StaleId}},
             {[exists |-> FALSE, articles |-> << >>]})

Spec == Init /\ [][Next]_vars

\* SpecArchive: the saved-article store of both programs, with refreshes,
\* selection updates and clears of the viewed set in between, the clock
\* moving in whole gate intervals.
ArchiveTexts == {<< >>, <<"w1", "w2", "w3">>}

ArchiveSave == App_save_article_endpoint(ArchiveTexts)
ArchiveNFSave == NF_save_article(ArchiveTexts)
ArchiveStartup == App_startup_event(ArchiveWorlds)
ArchiveFetch == App_fetch_news(ArchiveWorlds)
ArchiveNFFetch == NF_fetch_news(ArchiveWorlds)

NextArchive ==
    \/ Tick(CACHE_DURATION_MINUTES * TicksPerMinute)
    \/ ArchiveStartup
    \/ ArchiveFetch
    \/ App_update_sources({{}, {"lenta"}})
    \/ App_clear_cache
    \/ ArchiveSave
    \/ NF_init
    \/ ArchiveNFFetch
    \/ NF_clear_viewed_cache
    \/ ArchiveNFSave

InitArchive == InitOver({{}, {"lenta", "ria"}}, InitialStores)

SpecArchive == InitArchive /\ [][NextArchive]_vars

\* SpecView: the query views and the viewed set of both programs, over the
\* caches a fetch leaves and the stores an earlier run left.
ViewWorlds ==
    { World(<< >>, << >>, << >>, {}),
      World(<<E1, E5>>, <<E2>>, <<E4>>, {}),
      World(<<E2, E4>>, <<E6, E2>>, <<E4>>, {}),
      World(<<E1, E2>>, <<E7>>, << >>, {}) }



ViewStores ==
    {[exists |-> FALSE, articles |-> << >>],
     [exists |-> TRUE, articles |-> << >>],
     [exists |-> TRUE,
      articles |->
        <<OldArticle,
          [sourceUrl |-> L2, preview100 |-> T2 \o <<". ">> \o <<"w1">>,
           fullText |-> <<"w1">>, savedAt |-> 0,
           sourceName |-> get_source_display_name("ria"), title |-> T2,
           id |-> NoVal],
          [sourceUrl |-> HashLink, preview100 |-> T1 \o <<". ">> \o <<"w1">>,
           fullText |-> <<"w1">>, savedAt |-> 0,
           sourceName |-> get_source_display_name("habr"), title |-> T1,
           id |-> NoVal]>>]}

ViewPages == 1..3
Queries ==
    {<< >>, <<" ">>, <<" ", " ">>, <<"c">>, <<"C">>, <<"c", " ">>,
     <<"r", "i">>, <<"y">>, <<"q">>}

ViewStartup == App_startup_event(ViewWorlds)
ViewFetch == App_fetch_news(ViewWorlds)
ViewNFFetch == NF_fetch_news(ViewWorlds)

NextView ==
    \/ Tick(CACHE_DURATION_MINUTES * TicksPerMinute)
    \/ ViewStartup
    \/ ViewFetch
    \/ App_clear_cache
    \/ App_index(ViewPages, {"date", "title", "source"}, {"", "lenta", "habr"})
    \/ App_saved_news(ViewPages)
    \/ App_search(Queries)
    \/ App_stats
    \/ NF_init
    \/ ViewNFFetch
    \/ NF_mark_as_viewed
    \/ NF_clear_viewed_cache
    \/ NF_get_saved_articles(0..3, {1, PAGE_SIZE})
    \/ NF_search_news(Queries)
    \/ NF_get_stats
    \/ NF_get_new_news_count

InitView == InitOver({{"lenta", "ria"}}, ViewStores)

SpecView == InitView /\ [][NextView]_vars

\* SpecConc: the service with /save requests running side by side.
NextConc ==
    \/ ArchiveStartup
    \/ \E r \in Workers : Save_lookup(r)
    \/ \E r \in Workers : Save_extract(r, ArchiveTexts)
    \/ \E r \in Workers : Save_load(r)
    \/ \E r \in Workers : Save_write(r)
    \/ \E r \in Workers : Save_index(r)

InitConc == InitArchive /\ impl = "app0"

SpecConc == InitConc /\ [][NextConc]_vars

\* SpecRace: the service with /fetch requests and views of the cache running
\* side by side. A view takes the lock for its whole body, so it runs only
\* while no request is walking the feeds. The clock jumps over the first
\* gate interval and then moves tick by tick.
RaceStartWorld == World(<<E1, E2>>, <<E3>>, << >>, {})

\* One step of a /fetch request. The feeds may have changed since startup;
\* a selected source may accept the connection and never answer.
FetchStep(r) ==
    \/ Fetch_gate(r)
    \/ Fetch_lock(r, { World(<<E7>>, << >>, << >>, {}),
                       World(<<E1, E2>>, <<E8>>, << >>, {}) },
                  {{}, {"ria"}})
    \/ Fetch_finish(r)

NextRace ==
    \/ Tick(IF now = 0 THEN CACHE_DURATION_MINUTES * TicksPerMinute ELSE 1)
    \/ App_startup_event({RaceStartWorld})
    \/ \E r \in Workers : FetchStep(r)
    \/ LockFree /\ App_index({1}, {"date"}, {""})
    \/ LockFree /\ App_stats

InitRace ==
    /\ InitOver({{"lenta", "ria"}}, {[exists |-> FALSE, articles |-> << >>]})
    /\ impl = "app0"

SpecRace == InitRace /\ [][NextRace]_vars

\* SpecRaceFair: SpecRace with /save requests and clears of the viewed set
\* as well, under a host that goes on running every request that can take
\* a step.
RequestStep(r) ==
    \/ FetchStep(r)
    \/ Save_lookup(r)
    \/ Save_extract(r, ArchiveTexts)
    \/ Save_load(r)
    \/ Save_write(r)
    \/ Save_index(r)

NextRaceFair ==
    \/ Tick(IF now = 0 THEN CACHE_DURATION_MINUTES * TicksPerMinute ELSE 1)
    \/ App_startup_event({RaceStartWorld})
    \/ \E r \in Workers : RequestStep(r)
    \/ LockFree /\ App_index({1}, {"date"}, {""})
    \/ LockFree /\ App_stats
    \/ LockFree /\ App_clear_cache

\* A request that has begun and can take a step takes it.
SpecRaceFair ==
    /\ InitRace
    /\ [][NextRaceFair]_vars
    /\ \A r \in Workers : WF_vars(reqs[r].pc # "idle" /\ RequestStep(r))

\* SpecCatalog: the service while custom sources are registered, the clock
\* moving second by second.
NextCatalog ==
    \/ Tick(1)
    \/ App_startup_event({RaceStartWorld})
    \/ App_add_custom_feed({"Name1", "Name2"}, {"url1", "url2"})

SpecCatalog == InitRace /\ [][NextCatalog]_vars

\* SpecGate: the refresh gate of the service, the clock moving tick by tick.
NextGate ==
    \/ Tick(1)
    \/ App_startup_event({RaceStartWorld})
    \/ App_fetch_news({RaceStartWorld, NoWorld})

SpecGate == InitRace /\ [][NextGate]_vars

\* SpecPreview: archiving in both programs over texts shorter than, as long
\* as and longer than the preview.
NextPreview ==
    \/ ArchiveStartup
    \/ App_save_article_endpoint(Texts)
    \/ NF_init
    \/ ArchiveNFFetch
    \/ NF_save_article(Texts)

SpecPreview == InitArchive /\ [][NextPreview]_vars

\* ------------------------------------------------------------ properties
CachedLinks == {news[i].link : i \in 1..Len(news)}

\* The link under which an entry is cached.
EntryLink(e) == IF e.link # NoVal THEN e.link ELSE HashLink

\* The entries the last fetch consumed from the sources that answered.
Offered(order, w) ==
    UNION {Range(Prefix(w.feeds[id], RssEntryCap)) : id \in Reached(order, w.failed)}

OfferedCount(order, w) ==
    LET RECURSIVE Sum(_)
        Sum(S) == IF S = {} THEN 0
                  ELSE LET id == CHOOSE x \in S : TRUE
                       IN Len(Prefix(w.feeds[id], RssEntryCap)) + Sum(S \ {id})
    IN Sum(Reached(order, w.failed))

FetchDone ==
    \/ resp.op = "fetch" /\ resp.result = "accepted"
    \/ resp.op = "startup"

\* C1: in every reachable state the aggregation cache has no two items with
\* the same guid and no two items with the same link.
C1_CacheUnique ==
    \A i, j \in 1..Len(news) :
        i # j => news[i].guid # news[j].guid /\ news[i].link # news[j].link

\* A fetch over several sources that offered more entries than it kept,
\* without reaching the cap: it dropped a duplicate.
C1_Witness ==
    /\ FetchDone
    /\ Len(news) >= 2
    /\ Len(news) < MaxNewsItems
    /\ OfferedCount(resp.order, resp.world) > Len(news)
    /\ Cardinality(Reached(resp.order, resp.world.failed)) >= 2

\* C2: a refresh requested of the service while the gate is closed
\* (now - last_fetch_time < 5 minutes) is rejected, walks no source, and
\* leaves the cache and last_fetch_time as they were.
C2_FreshRefreshRejected ==
    [][(/\ Fetch
        /\ last_fetch_time # NoTime
        /\ now - last_fetch_time < CACHE_DURATION_MINUTES * TicksPerMinute)
       => (/\ resp'.result = "rejected"
           /\ resp'.order = << >>
           /\ UNCHANGED cacheVars)]_vars

C2_Witness ==
    /\ impl = "app0"
    /\ resp.op = "fetch"
    /\ resp.result = "rejected"
    /\ news # << >>
    /\ now > last_fetch_time

\* C3: a refresh in which every source asked fails is reported as failed
\* and leaves the cache and last_fetch_time as they were.
C3_TotalFailureKeepsCache ==
    [][(/\ Fetch \/ NFFetch
        /\ Contacted(resp'.order) # {}
        /\ Reached(resp'.order, resp'.world.failed) = {})
       => (/\ resp'.result = "failed"
           /\ UNCHANGED cacheVars)]_vars

\* C4: a source that fails in a fetch contributes no item and stops
\* nothing: the fetch is accepted, and every entry consumed from a source
\* that answered is in the cache under its link or its guid, unless the
\* cache was cut at the cap.
C4_SourceFailureIsolated ==
    FetchDone =>
        /\ \A i \in 1..Len(news) : news[i].sourceId \notin resp.world.failed
        /\ \/ Len(news) = MaxNewsItems
           \/ \A e \in Offered(resp.order, resp.world) :
                \E i \in 1..Len(news) :
                    \/ news[i].link = EntryLink(e)
                    \/ e.id # NoVal /\ news[i].guid = e.id

\* One source asked failed while serving entries, another answered.
C4_Witness ==
    /\ resp.op = "fetch"
    /\ resp.result = "accepted"
    /\ \E id \in Contacted(resp.order) \cap resp.world.failed :
           resp.world.feeds[id] # << >>
    /\ Reached(resp.order, resp.world.failed) # {}
    /\ news # << >>

\* C5: archiving a link again, its article in the store, the link in the
\* saved-links index and its item still cached, reports "already saved" and
\* leaves the size of the store unchanged.
C5_SecondArchiveAlreadySaved ==
    [][(/\ ArchiveSave \/ ArchiveNFSave
        /\ resp'.link \in SourceUrls(store)
        /\ resp'.link \in saved_links
        /\ resp'.link \in CachedLinks)
       => (/\ resp'.result = "already_saved"
           /\ Len(store') = Len(store))]_vars

\* C6: in every reachable state, also with archive requests for one link
\* running side by side, the store holds at most one article per
\* sourceUrl.
C6_OneArticlePerLink ==
    \A i, j \in 1..Len(store) : i # j => store[i].sourceUrl # store[j].sourceUrl

\* Two requests for the same link both passed the duplicate check and both
\* wrote the file.
C6_Witness ==
    \E r1, r2 \in Workers :
        /\ r1 # r2
        /\ reqs[r1].link = reqs[r2].link
        /\ reqs[r1].wrote
        /\ reqs[r2].wrote

\* C7: archive of a link that no cached item has is rejected as not found,
\* the collaborator is not called, and the store and the saved-links index
\* stay as they were.
C7_UnknownLinkRejected ==
    [][(/\ ArchiveSave \/ ArchiveNFSave
        /\ resp'.link \notin CachedLinks)
       => (/\ resp'.result = "not_found"
           /\ ~resp'.extracted
           /\ UNCHANGED saveVars)]_vars

C7_Witness ==
    /\ resp.op = "save"
    /\ resp.result = "not_found"
    /\ resp.link \notin CachedLinks
    /\ news # << >>
    /\ store # << >>

\* C8: when the collaborator returns empty text the archive is rejected for
\* that reason and nothing is persisted; every article in the store has a
\* non-empty fullText.
C8_NoEmptyText ==
    /\ [](\A i \in 1..Len(store) : store[i].fullText # << >>)
    /\ [][(/\ ArchiveSave \/ ArchiveNFSave
           /\ resp'.extracted
           /\ resp'.text = << >>)
          => (/\ resp'.result = "no_text"
              /\ UNCHANGED saveVars)]_vars

C8_Witness ==
    /\ resp.op = "save"
    /\ resp.result = "no_text"
    /\ resp.extracted
    /\ resp.link \in CachedLinks

\* C9: an archive during which the store cannot be read or written is
\* reported as a failure and leaves the store and the saved-links index as
\* they were.
C9_IoFailureLeavesStore ==
    [][(/\ ArchiveSave \/ ArchiveNFSave
        /\ resp'.io \in {"read_failed", "write_failed"})
       => (/\ resp'.result = "error"
           /\ UNCHANGED saveVars)]_vars

\* s is t with some elements left out.
RECURSIVE IsSubsequence(_, _)
IsSubsequence(s, t) ==
    IF s = << >> THEN TRUE
    ELSE IF t = << >> THEN FALSE
    ELSE IF Head(s) = Head(t) THEN IsSubsequence(Tail(s), Tail(t))
    ELSE IsSubsequence(s, Tail(t))

\* C10: every article in the store stays there, with the same fields and in
\* the same relative order, whatever operation follows.
C10_StoreOnlyGrows == [][IsSubsequence(store, store')]_vars

\* C11: a refresh, accepted or rejected, leaves the viewed set as it was,
\* and a step that empties a non-empty viewed set is a clear operation.
C11_RefreshKeepsViewed ==
    [][/\ resp'.op = "fetch" => seen_news' = seen_news
       /\ (seen_news # {} /\ seen_news' = {}) => resp'.op = "clear_cache"]_vars

\* A refresh has just been made while items were marked as viewed.
C11_Witness ==
    /\ resp.op = "fetch"
    /\ resp.result = "accepted"
    /\ seen_news # {}

\* C12: a mark-as-viewed step never raises the count of new items, and
\* right after a clear of the viewed set the count is the number of
\* cached items.
C12_NewCountMonotone ==
    [][/\ resp'.op = "mark_as_viewed" => get_new_news_count' <= get_new_news_count
       /\ resp'.op = "clear_cache" => get_new_news_count' = Len(news')]_vars

\* An item was just marked and the count is below the size of a cache of
\* two or more items.
C12_Witness ==
    /\ resp.op = "mark_as_viewed"
    /\ Len(news) >= 2
    /\ get_new_news_count < Len(news)

\* C13: a page taken from an empty list reports one page in all and holds
\* no item, whatever page was asked for.
C13_EmptyPagination ==
    (resp.result = "page" /\ resp.all = << >>)
        => (resp.total_pages = 1 /\ resp.items = << >>)

\* C14: a page view reports max(1, ceil(count / pageSize)) pages, a page
\* number clamped into 1..totalPages, and exactly the items at positions
\* (page-1)*pageSize .. min(page*pageSize, count)-1 of the list.
C14_PageIsSlice ==
    resp.result = "page" =>
        LET count == Len(resp.all)
            total_pages == Max(1, (count + resp.page_size - 1) \div resp.page_size)
            page == Max(1, Min(resp.asked, total_pages))
        IN /\ resp.total_pages = total_pages
           /\ resp.page = page
           /\ resp.items = Slice(resp.all, (page - 1) * resp.page_size,
                                 Min(page * resp.page_size, count))

\* C15: a search whose query is empty or only blanks returns no item.
C15_BlankQueryFindsNothing ==
    (resp.op = "search" /\ Strip(resp.query) = << >>) => resp.items = << >>

\* C16: a search with a query that is not blank returns, in cache order,
\* exactly the cached items that have the lower-cased query as a substring
\* of the lower-cased title, summary or source display name.
C16_SearchIsSubstringFilter ==
    (resp.op = "search" /\ Strip(resp.query) # << >>)
        => resp.items = SelectSeq(news, LAMBDA item : Matches(Lower(resp.query), item))

\* The calendar time of a cached item's date: that of the feed date with
\* the item's raw date string, 0 for an item without a date.
PublishedAt(item) ==
    (CHOOSE d \in {NoDate, DMon8, DTue2, DWed3} : d.text = item.date).time

\* The items the last pass accepted, in walk order, before sort and cut.
Accepted ==
    IF impl = "app0"
    THEN AppWalkFeeds(resp.order, resp.world.feeds, resp.world.failed, EmptyWalk).items
    ELSE NFWalkFeeds(resp.order, resp.world.feeds, resp.world.failed, EmptyWalk).items

\* C17: in the cache a refresh leaves, no item without a date stands before
\* an item with a date.
C17_UndatedLast ==
    FetchDone =>
        \A i, j \in 1..Len(news) :
            i < j => ~(news[i].date = NoDate.text /\ news[j].date # NoDate.text)

\* C18: after a refresh whose entries all carry a date, the cache holds at
\* most MaxNewsItems items, newest first, and no item it holds is older
\* than an accepted item it dropped.
C18_CappedNewestFirst ==
    (FetchDone /\ \A e \in Offered(resp.order, resp.world) : e.published # NoDate)
        => /\ Len(news) <= MaxNewsItems
           /\ \A i, j \in 1..Len(news) :
                  i < j => PublishedAt(news[i]) >= PublishedAt(news[j])
           /\ \A a \in Range(Accepted) : \A n \in Range(news) :
                  a \notin Range(news) => PublishedAt(n) >= PublishedAt(a)

\* C19: a fetch whose selection holds an id the catalog does not have is
\* accepted and walks every other selected source: each entry consumed from
\* a source that answered is in the cache under its link or its guid,
\* unless the cache was cut at the cap; and no cached item carries a
\* sourceId outside the catalog.
C19_StaleIdsSkipped ==
    /\ \A i \in 1..Len(news) : news[i].sourceId \in CatalogIds
    /\ (FetchDone /\ StaleId \in Range(resp.order)) =>
           \/ Len(news) = MaxNewsItems
           \/ \A id \in Reached(resp.order, resp.world.failed) :
                \A e \in Range(Prefix(resp.world.feeds[id], RssEntryCap)) :
                    \E i \in 1..Len(news) :
                        \/ news[i].link = EntryLink(e)
                        \/ e.id # NoVal /\ news[i].guid = e.id

\* A pass walked the stale id first and then cached items of a source of
\* the catalog.
C19_Witness ==
    /\ FetchDone
    /\ impl = "app0"
    /\ Len(resp.order) >= 2
    /\ Head(resp.order) = StaleId
    /\ news # << >>

\* C20: every fetch that is answered walked a selection that is not empty,
\* and one made while the stored selection is empty walked the default set.
C20_EmptySelectionUsesDefault ==
    (resp.op \in {"fetch", "startup"}
        /\ resp.result \in {"accepted", "done", "no_sources"})
    => /\ resp.result # "no_sources"
       /\ resp.order # << >>
       /\ (impl = "app0" /\ db = {}) => Range(resp.order) = AppDefaultFeeds

\* C26: when archive requests for different links run side by side and
\* wrote the file, the article of each of them is in the store.
C26_ConcurrentArchivesBothPersist ==
    \A r1, r2 \in Workers :
        (/\ r1 # r2
         /\ reqs[r1].link # reqs[r2].link
         /\ reqs[r1].wrote
         /\ reqs[r2].wrote)
        => {reqs[r1].link, reqs[r2].link} \subseteq SourceUrls(store)

\* C27: an archive request for a cached link whose article is already in
\* the store is answered without calling the page-text collaborator.
C27_NoExtractionForSavedLink ==
    [][(/\ ArchiveSave \/ ArchiveNFSave
        /\ resp'.link \in SourceUrls(store)
        /\ resp'.link \in CachedLinks)
       => ~resp'.extracted]_vars

\* C28: the viewed set is empty until the program has started; a step
\* that is not a clear never removes a fingerprint from it; and once a page
\* view has rendered items, their fingerprints (link ++ title) are in it,
\* so that they are no longer counted as new.
C28_ViewedSetGrows ==
    /\ [](~started => seen_news = {})
    /\ [][/\ resp'.op # "clear_cache" => seen_news \subseteq seen_news'
          /\ resp'.op = "index" =>
                \A k \in 1..Len(resp'.items) :
                    Fingerprint(resp'.items[k]) \in seen_news']_vars

\* C29: the items a pass accepts are, in walk order and with the source
\* they were walked under, exactly the walked entries whose guid and link
\* were not those of an entry accepted before them; so a later source's
\* duplicate of a link neither replaces the item nor adds one, and the
\* cache, when not cut at the cap, holds these items and no other. For
\* lenta serving L1, L2 (newest first) and ria a duplicate of L2, the cache
\* is L1, L2, both attributed to lenta.
C29_FirstWalkedWins ==
    FetchDone =>
        LET \* the entries of the pass in the order the loops meet them
            RECURSIVE Walked(_, _)
            Walked(order, w) ==
                IF order = << >> THEN << >>
                ELSE LET feed_id == Head(order)
                         consumed == IF feed_id \in CatalogIds
                                     THEN ConsumedEntries(feed_id, w.feeds, w.failed)
                                     ELSE << >>
                     IN [i \in 1..Len(consumed) |->
                            [sourceId |-> feed_id, entry |-> consumed[i]]]
                        \o Walked(Tail(order), w)
            walked == Walked(resp.order, resp.world)
            \* the guid the k-th walked entry is compared under (app0 line
            \* 355, t1 line 312)
            WalkedGuid(entry, k) ==
                IF entry.id # NoVal THEN entry.id
                ELSE IF impl = "app0"
                     THEN (IF entry.link # NoVal THEN entry.link ELSE Uuid4(k))
                     ELSE EntryLink(entry)
            RECURSIVE Kept(_, _, _, _)
            Kept(k, guids, links, out) ==
                IF k > Len(walked) THEN out
                ELSE LET guid == WalkedGuid(walked[k].entry, k)
                         link == EntryLink(walked[k].entry)
                     IN IF guid \in guids \/ link \in links
                        THEN Kept(k + 1, guids, links, out)
                        ELSE Kept(k + 1, guids \cup {guid}, links \cup {link},
                                  Append(out, [sourceId |-> walked[k].sourceId,
                                               link |-> link]))
            Attributed(items) ==
                [i \in 1..Len(items) |->
                    [sourceId |-> items[i].sourceId, link |-> items[i].link]]
        IN /\ Attributed(Accepted) = Kept(1, {}, {}, << >>)
           /\ Range(news) \subseteq Range(Accepted)
           /\ Len(Accepted) <= MaxNewsItems => Len(news) = Len(Accepted)
           /\ (/\ resp.order = <<"lenta", "ria">>
               /\ resp.world.feeds.lenta = <<E1, E2>>
               /\ resp.world.feeds.ria = <<E3>>
               /\ resp.world.failed = {})
              => Attributed(news) = <<[sourceId |-> "lenta", link |-> L1],
                                      [sourceId |-> "lenta", link |-> L2]>>

\* lenta was walked before ria, ria served an entry with the link of one
\* of lenta's, and the cache holds that link once, attributed to lenta.
C29_Witness ==
    /\ FetchDone
    /\ resp.order = <<"lenta", "ria">>
    /\ resp.world.failed = {}
    /\ \E a \in Range(Prefix(resp.world.feeds.lenta, RssEntryCap)) :
       \E b \in Range(Prefix(resp.world.feeds.ria, RssEntryCap)) :
          /\ a.link # NoVal
          /\ a.link = b.link
          /\ a.title # b.title
          /\ Cardinality({i \in 1..Len(news) : news[i].link = a.link}) = 1
          /\ \E i \in 1..Len(news) :
                news[i].link = a.link /\ news[i].sourceId = "lenta"
    /\ Len(news) >= 2

\* C30: a cached item's guid is its entry's id, or without an id its
\* link; and when a pass is not cut at the cap, the entries a source served
\* without id and without link are all in the cache, one item each.
C30_KeylessEntriesDistinct ==
    FetchDone =>
        /\ \A i \in 1..Len(news) :
             \E e \in Range(ConsumedEntries(news[i].sourceId, resp.world.feeds,
                                            resp.world.failed)) :
                /\ news[i].link = EntryLink(e)
                /\ e.id # NoVal => news[i].guid = e.id
                /\ (e.id = NoVal /\ e.link # NoVal) => news[i].guid = e.link
        /\ Len(news) < MaxNewsItems =>
             \A id \in Reached(resp.order, resp.world.failed) :
                LET consumed == ConsumedEntries(id, resp.world.feeds,
                                                resp.world.failed)
                    keyless == {k \in 1..Len(consumed) :
                                   consumed[k].id = NoVal /\ consumed[k].link = NoVal}
                    cached == {i \in 1..Len(news) :
                                   news[i].sourceId = id /\ news[i].link = HashLink}
                IN Cardinality(cached) >= Cardinality(keyless)

\* C23: a refresh requested while the gate is open (no earlier fetch, or
\* the last one at least CACHE_DURATION_MINUTES ago) and answered without
\* a database error is accepted; it sets last_fetch_time to the present and
\* closes the gate; every item of the new cache comes from an entry its
\* source served in this pass; and every entry served in this pass is in
\* the new cache under its link or its guid, whatever the cache held
\* before, unless the new cache was cut at the cap.
C23_StaleRefreshReplaces ==
    [][(/\ resp'.op = "fetch"
        /\ now' = now
        /\ resp'.result # "error"
        /\ ~GateClosed(last_fetch_time, now))
       => (/\ resp'.result = "accepted"
           /\ last_fetch_time' = now
           /\ GateClosed(last_fetch_time', now')
           /\ \A i \in 1..Len(news') :
                \E e \in Range(ConsumedEntries(news'[i].sourceId, resp'.world.feeds,
                                               resp'.world.failed)) :
                    news'[i].link = EntryLink(e)
           /\ \/ Len(news') = MaxNewsItems
              \/ \A e \in Offered(resp'.order, resp'.world) :
                   \E i \in 1..Len(news') :
                       \/ news'[i].link = EntryLink(e)
                       \/ e.id # NoVal /\ news'[i].guid = e.id)]_vars

\* C24: the request that follows the start of the program, when it is a
\* refresh, is not rejected by the gate.
C24_FirstRefreshAccepted ==
    [][(/\ resp.op \in {"startup", "init"}
        /\ resp'.op = "fetch")
       => resp'.result # "rejected"]_vars

\* C21: what a view of the cache reports, the items (for the statistics
\* their number) together with the time of the last fetch, is the pair one
\* pass stored: that of the fetch at startup, or the list merged and the
\* time read by one accepted /fetch request; also when the view runs while
\* other refreshes are in progress.
C21_ViewSeesOneRefresh ==
    resp.op \in {"index", "stats"} =>
        \/ /\ resp.last_fetch_time = 0
           /\ \E order \in Orders(load_selected_feeds(db)) :
                LET stored == fetch_rss_feeds(order, RaceStartWorld.feeds,
                                              RaceStartWorld.failed)
                IN /\ resp.total_news = Len(stored)
                   /\ resp.op = "index" => resp.all = stored
        \/ \E r \in Workers :
                /\ reqs[r].result = "accepted"
                /\ resp.last_fetch_time = reqs[r].at
                /\ resp.total_news = Len(reqs[r].merged)
                /\ resp.op = "index" => resp.all = reqs[r].merged

\* A view answered between two refreshes that ran side by side: one has
\* stored its list, the view shows it, and the other is still between its
\* gate test and its store.
C21_Witness ==
    /\ resp.op = "index"
    /\ \E r1, r2 \in Workers :
          /\ reqs[r1].result = "accepted"
          /\ resp.all = reqs[r1].merged
          /\ resp.last_fetch_time = reqs[r1].at
          /\ reqs[r2].pc = "passed"
    /\ resp.all # << >>

\* C22: any two /fetch requests that were accepted read the clock at least
\* CACHE_DURATION_MINUTES apart, and none was accepted less than that after
\* the fetch at startup.
C22_GateUnderConcurrency ==
    /\ \A r1, r2 \in Workers :
          (r1 # r2 /\ reqs[r1].result = "accepted" /\ reqs[r2].result = "accepted")
          => \/ reqs[r1].at - reqs[r2].at >= CACHE_DURATION_MINUTES * TicksPerMinute
             \/ reqs[r2].at - reqs[r1].at >= CACHE_DURATION_MINUTES * TicksPerMinute
    /\ \A r \in Workers :
          reqs[r].result = "accepted"
          => reqs[r].at >= CACHE_DURATION_MINUTES * TicksPerMinute

\* C25: every request that has begun is answered in the end, and whenever
\* the lock is held it is released in the end, so that a view waiting for
\* it completes; also when a selected source never answers.
C25_NoRequestBlocksForever ==
    /\ \A r \in Workers : (reqs[r].pc # "idle") ~> (reqs[r].pc = "done")
    /\ (~LockFree) ~> LockFree

\* C31: after a fetch every source has at most RssEntryCap items among the
\* accepted ones and in the cache, each of them made from one of the first
\* RssEntryCap entries of its feed; an entry further down the feed is not
\* taken in the place of one of these that was rejected as a duplicate.
C31_PerSourceEntryCap ==
    FetchDone =>
        \A id \in CatalogIds :
            LET first == Prefix(resp.world.feeds[id], RssEntryCap)
                FromSource(items) == SelectSeq(items, LAMBDA n : n.sourceId = id)
                MadeFrom(n, e) ==
                    /\ n.link = EntryLink(e)
                    /\ n.date = e.published.text
                    /\ e.id # NoVal => n.guid = e.id
            IN /\ Len(FromSource(Accepted)) <= RssEntryCap
               /\ Len(FromSource(news)) <= RssEntryCap
               /\ \A n \in Range(FromSource(Accepted)) \cup Range(FromSource(news)) :
                      \E k \in 1..Len(first) : MadeFrom(n, first[k])

\* A source that answered served more entries than the cap, one of its
\* first entries was rejected as a duplicate, and an entry beyond the cap,
\* unlike every entry consumed, is not in the cache.
C31_Witness ==
    /\ FetchDone
    /\ \E id \in Reached(resp.order, resp.world.failed) :
          /\ Len(resp.world.feeds[id]) > RssEntryCap
          /\ Len(SelectSeq(Accepted, LAMBDA n : n.sourceId = id)) < RssEntryCap
          /\ Len(SelectSeq(news, LAMBDA n : n.sourceId = id)) >= 1
          /\ \E k \in (RssEntryCap + 1)..Len(resp.world.feeds[id]) :
                \A n \in Range(news) :
                    n.date # resp.world.feeds[id][k].published.text

\* C32: registering a custom source leaves every key the catalog already
\* holds with the value it had (the endpoint under the id, the display name
\* under id_name), and adds an id the catalog did not hold.
C32_RegisteredSourcesImmutable ==
    [][/\ \A key \in DOMAIN custom_feeds :
              key \in DOMAIN custom_feeds' /\ custom_feeds'[key] = custom_feeds[key]
       /\ custom_feeds' # custom_feeds =>
              Cardinality(DOMAIN custom_feeds') =
                  Cardinality(DOMAIN custom_feeds) + 2]_vars

\* C33: a refresh that the gate rejects answers a wait of N whole minutes
\* with 1 <= N <= CACHE_DURATION_MINUTES, N being the time the gate stays
\* closed rounded up to a whole minute; and N minutes later, the time of
\* the last fetch being the same, the gate is open; a refresh requested
\* while the gate is open is not rejected.
C33_RejectedWaitIsRemainingRoundedUp ==
    [][/\ (resp'.op = "fetch" /\ resp'.result = "rejected" /\ now' = now) =>
            LET N == resp'.minutes_left
                remaining == CACHE_DURATION_MINUTES * TicksPerMinute
                                 - (now - last_fetch_time)
            IN /\ 1 <= N
               /\ N <= CACHE_DURATION_MINUTES
               /\ N = (remaining + TicksPerMinute - 1) \div TicksPerMinute
               /\ ~GateClosed(last_fetch_time', now + N * TicksPerMinute)
       /\ (resp'.op = "fetch" /\ now' = now /\ ~GateClosed(last_fetch_time, now)) =>
            resp'.result # "rejected"]_vars

\* A refresh was rejected part of a minute into the interval, with a wait
\* shorter than the whole interval.
C33_Witness ==
    /\ resp.op = "fetch"
    /\ resp.result = "rejected"
    /\ (now - last_fetch_time) % TicksPerMinute # 0
    /\ resp.minutes_left < CACHE_DURATION_MINUTES
    /\ resp.minutes_left =
           CACHE_DURATION_MINUTES - ((now - last_fetch_time) \div TicksPerMinute)

\* C34: the preview of every article in the store is its title, the
\* separator, and then the first PreviewWordCap words of its full text when
\* the text has more words than that, the full text itself otherwise; and
\* an article is written under the title of the cached item of its link.
C34_PreviewIsTitleAndFirstWords ==
    /\ [](\A k \in 1..Len(store) :
            LET a == store[k]
                shown == SubSeq(a.preview100, Len(a.title) + 2, Len(a.preview100))
            IN /\ Len(a.preview100) >= Len(a.title) + 1
               /\ SubSeq(a.preview100, 1, Len(a.title)) = a.title
               /\ a.preview100[Len(a.title) + 1] = ". "
               /\ Len(shown) <= PreviewWordCap
               /\ Len(a.fullText) > PreviewWordCap =>
                      shown = SubSeq(a.fullText, 1, PreviewWordCap)
               /\ Len(a.fullText) <= PreviewWordCap => shown = a.fullText)
    /\ [][(resp'.op = "save" /\ store' # store) =>
              LET a == store'[Len(store')]
              IN /\ a.sourceUrl = resp'.link
                 /\ a.fullText = resp'.text
                 /\ a.title = news[FindArticle(resp'.link)].title]_vars

\* The store holds an article saved from a text longer than the preview
\* and one saved from a text that fits it.
C34_Witness ==
    /\ \E k \in 1..Len(store) :
          /\ Len(store[k].fullText) > PreviewWordCap
          /\ store[k].savedAt = now
          /\ store[k].sourceUrl = resp.link
    /\ \E k \in 1..Len(store) :
          /\ Len(store[k].fullText) <= PreviewWordCap
          /\ Len(store[k].fullText) >= 2

\* C35: a query view (the filtered, sorted page of the cache; a search; the
\* count of new items; the statistics) leaves the cached items and their
\* order, the time of the last fetch, the selection and the saved store as
\* they were.
C35_ViewsDoNotMutate ==
    [][(resp'.op \in {"index", "search", "stats", "new_count"} /\ now' = now)
       => UNCHANGED <<news, last_fetch_time, db, selected_feeds, file_exists,
                      store, saved_links>>]_vars

\* The page shown was sorted into an order that is not the cache's, and the
\* cache holds its items in its own order still.
C35_Witness ==
    /\ resp.op = "index"
    /\ Len(resp.all) = Len(news)
    /\ Len(news) >= 2
    /\ resp.all # news
    /\ Range(resp.all) = Range(news)

\* C36: the list a page of the cache is cut from holds exactly the items
\* that pass the source filter, each once; for the key date no item stands
\* before one published later, for the keys title and source no item
\* stands before one whose lower-cased title (display name) is smaller; and
\* items of equal key stand in the order the cache has them in.
C36_SortedViewStable ==
    resp.op = "index" =>
        LET filtered == IF resp.source # ""
                        THEN SelectSeq(news, LAMBDA n : n.sourceId = resp.source)
                        ELSE news
            sorted_news == resp.all
            Pos(n) == CHOOSE k \in 1..Len(filtered) : filtered[k] = n
            \* the rank under which the key orders an item, smaller first
            Rank(n) == IF resp.sort = "title" THEN StrKey(Lower(n.title))
                       ELSE IF resp.sort = "source" THEN StrKey(Lower(n.sourceName))
                       ELSE 0 - PublishedAt(n)
        IN /\ Len(sorted_news) = Len(filtered)
           /\ Range(sorted_news) = Range(filtered)
           /\ \A i, j \in 1..Len(sorted_news) :
                  i < j =>
                      \/ Rank(sorted_news[i]) < Rank(sorted_news[j])
                      \/ /\ Rank(sorted_news[i]) = Rank(sorted_news[j])
                         /\ Pos(sorted_news[i]) < Pos(sorted_news[j])

\* C37: the statistics list display names, each once and with the number
\* of cached items of that name, in descending order of count, at most
\* StatsSourceCap of them and none with a smaller count than a name left
\* out; when the cache has no more names than that, every name is listed
\* and the counts add up to the size of the cache.
C37_StatsBySource ==
    resp.op = "stats" =>
        LET shown == resp.news_by_source
            CountOf(name) ==
                Cardinality({k \in 1..Len(news) : news[k].sourceName = name})
            names == {news[k].sourceName : k \in 1..Len(news)}
            listed == {shown[i].name : i \in 1..Len(shown)}
            RECURSIVE Total(_)
            Total(i) == IF i > Len(shown) THEN 0 ELSE shown[i].count + Total(i + 1)
        IN /\ \A i \in 1..Len(shown) :
                  shown[i].name \in names /\ shown[i].count = CountOf(shown[i].name)
           /\ \A i, j \in 1..Len(shown) :
                  i < j => shown[i].name # shown[j].name
                           /\ shown[i].count >= shown[j].count
           /\ Len(shown) <= StatsSourceCap
           /\ \A name \in names \ listed :
                  \A i \in 1..Len(shown) : shown[i].count >= CountOf(name)
           /\ Cardinality(names) <= StatsSourceCap =>
                  listed = names /\ Total(1) = Len(news)

\* C38: no step, whether of one refresh or of refreshes under way side by
\* side, sets the time of the last fetch to an earlier time than the one
\* stored.
C38_LastFetchTimeMonotone ==
    [][last_fetch_time' >= last_fetch_time]_vars

\* C39: in every state the saved-links index holds only links for which the
\* persisted store holds a record.
C39_SavedLinksInStore ==
    saved_links \subseteq SourceUrls(store)

\* C40: when the cached items have pairwise distinct links, marking a new
\* item as viewed lowers the count of new items by exactly one, and exactly
\* one cached item changes from new to viewed.
C40_MarkAffectsOneItem ==
    [][(/\ resp'.op = "mark_as_viewed"
        /\ seen_news' # seen_news
        /\ \A i, j \in 1..Len(news) : i # j => news[i].link # news[j].link)
       => /\ get_new_news_count' = get_new_news_count - 1
          /\ Cardinality({i \in 1..Len(news) :
                 (Fingerprint(news[i]) \in seen_news')
                     # (Fingerprint(news[i]) \in seen_news)}) = 1]_vars

====
